---------------------------- MODULE Spec2Model ----------------------------
(***************************************************************************)
(* Two browser mini-games of the repository, each a React component:       *)
(*   - SnakeGame.tsx   : the grid game (fixed-interval tick, arrow keys);   *)
(*   - SlitherGame.tsx : the continuous game (per-frame callback, pointer). *)
(* The components share nothing.  Spec is the grid game; SlitherSpec is the *)
(* continuous game.  Each leaves the other component's state untouched.     *)
(* EitherSpec plays either game with the other component as constructed.    *)
(*                                                                          *)
(* React state is modelled as committed between handlers: every handler     *)
(* (interval tick, keydown, button command) runs against the closure of the *)
(* latest render, which is what the effects at SnakeGame.tsx:189-197        *)
(* re-register after every state change.                                    *)
(***************************************************************************)
EXTENDS Integers, Sequences, FiniteSets

(***************************************************************************)
(* Grid game: SnakeGame.tsx                                                 *)
(***************************************************************************)
VARIABLES
    snake,              \* useState<Position[]>: segments, head first
    food,               \* useState<Food>
    direction,          \* useState<string>
    gameOver,           \* useState(false)
    score,              \* useState(0)
    gameRunning,        \* useState(false)
    lastOp,             \* history: the handler that ran last
    lastTickDirection   \* history: direction used by the last tick that moved

gridVars == <<snake, food, direction, gameOver, score, gameRunning,
              lastOp, lastTickDirection>>

\* State of the continuous game (SlitherGame.tsx), described further down.
VARIABLES
    sGameRunning,       \* useState(false)            (gameRunning)
    sGameOver,          \* useState(false)            (gameOver)
    sScore,             \* useState(0)                (score)
    mousePos,           \* useState<Position>
    camera,             \* useState<Position>
    snakesRef,          \* useRef<Snake[]>
    foodRef,            \* useRef<Food[]>
    animationFrameRef,  \* useRef<number>: 0 stands for undefined
    frameQueue,         \* callbacks requestAnimationFrame holds, with closures
    nextFrameId,        \* the id the next requestAnimationFrame returns
    frameLog            \* history: what the last frame since startGame did to
                        \* each actor, <<>> when there was none

slitherVars == <<sGameRunning, sGameOver, sScore, mousePos, camera, snakesRef,
                 foodRef, animationFrameRef, frameQueue, nextFrameId, frameLog>>

vars == <<gridVars, slitherVars>>

GRID_SIZE == 20
CANVAS_WIDTH == 600
CANVAS_HEIGHT == 400

\* Longest snake the model follows: a tick that would grow past it is not taken.
MaxLen == 2

\* Outcomes of the two Math.random() calls of generateFood the model draws
\* from, in thousandths of [0, 1): cells (10, 6) and (11, 6).
RandomDrawsX == {350, 380}
RandomDrawsY == {350}

Keys == {"ArrowUp", "ArrowDown", "ArrowLeft", "ArrowRight", " ", "Enter"}

Pos(px, py) == [x |-> px, y |-> py]

\* Math.floor(Math.random() * n) for a draw r given in thousandths.
FloorRandom(r, n) == (r * n) \div 1000

generateFood(rx, ry) ==
    LET maxX == (CANVAS_WIDTH \div GRID_SIZE) - 1
        maxY == (CANVAS_HEIGHT \div GRID_SIZE) - 1
    IN  Pos(FloorRandom(rx, maxX), FloorRandom(ry, maxY))

\* The switch on direction: the new head for the active direction.
Advance_Flipped(head, d) ==
    CASE d = "UP"    -> [head EXCEPT !.y = head.y + 1]
      [] d = "DOWN"  -> [head EXCEPT !.y = head.y - 1]
      [] d = "LEFT"  -> [head EXCEPT !.x = head.x - 1]
      [] d = "RIGHT" -> [head EXCEPT !.x = head.x + 1]
      [] OTHER       -> head

Advance_TwoCells(head, d) ==
    CASE d = "UP"    -> [head EXCEPT !.y = head.y - 2]
      [] d = "DOWN"  -> [head EXCEPT !.y = head.y + 2]
      [] d = "LEFT"  -> [head EXCEPT !.x = head.x - 2]
      [] d = "RIGHT" -> [head EXCEPT !.x = head.x + 2]
      [] OTHER       -> head

Advance(head, d) ==
    CASE d = "UP"    -> [head EXCEPT !.y = head.y - 1]
      [] d = "DOWN"  -> [head EXCEPT !.y = head.y + 1]
      [] d = "LEFT"  -> [head EXCEPT !.x = head.x - 1]
      [] d = "RIGHT" -> [head EXCEPT !.x = head.x + 1]
      [] OTHER       -> head

HitsWall_OffByOne(head) ==
    \/ head.x < 0
    \/ head.x > CANVAS_WIDTH \div GRID_SIZE
    \/ head.y < 0
    \/ head.y > CANVAS_HEIGHT \div GRID_SIZE

HitsWall(head) ==
    \/ head.x < 0
    \/ head.x >= CANVAS_WIDTH \div GRID_SIZE
    \/ head.y < 0
    \/ head.y >= CANVAS_HEIGHT \div GRID_SIZE

\* newSnake.some(segment => segment.x === head.x && segment.y === head.y)
HitsSelf_SkipTail(s, head) ==
    \E i \in 1..(Len(s) - 1) : s[i].x = head.x /\ s[i].y = head.y

HitsSelf(s, head) ==
    \E i \in 1..Len(s) : s[i].x = head.x /\ s[i].y = head.y

EatsFood(head, f) == head.x = f.x /\ head.y = f.y

\* newSnake.unshift(head), then newSnake.pop() unless the food was eaten.
NextSnake_AlwaysPop(s, head, ate) ==
    SubSeq(<<head>> \o s, 1, Len(s))

NextSnake(s, head, ate) ==
    IF ate THEN <<head>> \o s
           ELSE SubSeq(<<head>> \o s, 1, Len(s))

ScoreAfter_Five(sc) == sc + 5

ScoreAfter(sc) == sc + 10

GridInit ==
    /\ snake = <<Pos(10, 10)>>
    /\ food = Pos(15, 15)
    /\ direction = "RIGHT"
    /\ gameOver = FALSE
    /\ score = 0
    /\ gameRunning = FALSE
    /\ lastOp = "init"
    /\ lastTickDirection = "NONE"

resetGame_KeepsScore ==
    /\ \E rx \in RandomDrawsX, ry \in RandomDrawsY : food' = generateFood(rx, ry)
    /\ snake' = <<Pos(10, 10)>>
    /\ direction' = "RIGHT"
    /\ gameOver' = FALSE
    /\ gameRunning' = FALSE
    /\ lastOp' = "reset"
    /\ lastTickDirection' = "NONE"
    /\ UNCHANGED score
    /\ UNCHANGED slitherVars

resetGame ==
    /\ \E rx \in RandomDrawsX, ry \in RandomDrawsY : food' = generateFood(rx, ry)
    /\ snake' = <<Pos(10, 10)>>
    /\ direction' = "RIGHT"
    /\ gameOver' = FALSE
    /\ score' = 0
    /\ gameRunning' = FALSE
    /\ lastOp' = "reset"
    /\ lastTickDirection' = "NONE"
    /\ UNCHANGED slitherVars

\* The body of startGame: the state it leaves gameRunning in.
StartedRunning_Always(running, over) == TRUE

StartedRunning(running, over) ==
    IF ~running /\ ~over THEN TRUE ELSE running

startGame ==
    /\ gameRunning' = StartedRunning(gameRunning, gameOver)
    /\ lastOp' = "start"
    /\ UNCHANGED <<snake, food, direction, gameOver, score, lastTickDirection>>
    /\ UNCHANGED slitherVars

moveSnake ==
    /\ lastOp' = "tick"
    /\ UNCHANGED slitherVars
    /\ IF ~gameRunning \/ gameOver
       THEN UNCHANGED <<snake, food, direction, gameOver, score, gameRunning,
                        lastTickDirection>>
       ELSE LET head == Advance(snake[1], direction) IN
            /\ lastTickDirection' = direction
            /\ UNCHANGED direction
            /\ IF HitsWall(head) \/ HitsSelf(snake, head)
               THEN /\ gameOver' = TRUE
                    /\ gameRunning' = FALSE
                    /\ UNCHANGED <<snake, food, score>>
               ELSE /\ UNCHANGED <<gameOver, gameRunning>>
                    /\ IF EatsFood(head, food)
                       THEN /\ Len(snake) < MaxLen
                            /\ snake' = NextSnake(snake, head, TRUE)
                            /\ \E rx \in RandomDrawsX, ry \in RandomDrawsY :
                                   food' = generateFood(rx, ry)
                            /\ score' = ScoreAfter(score)
                       ELSE /\ snake' = NextSnake(snake, head, FALSE)
                            /\ UNCHANGED <<food, score>>

\* The switch on e.key: the direction after the key, given the current one.
KeyDirection(key, d) ==
    CASE key = "ArrowUp"    -> IF d # "DOWN"  THEN "UP"    ELSE d
      [] key = "ArrowDown"  -> IF d # "UP"    THEN "DOWN"  ELSE d
      [] key = "ArrowLeft"  -> IF d # "RIGHT" THEN "LEFT"  ELSE d
      [] key = "ArrowRight" -> IF d # "LEFT"  THEN "RIGHT" ELSE d
      [] OTHER              -> d

handleKeyPress(key) ==
    /\ lastOp' = (IF key = " " THEN "space" ELSE "key")
    /\ UNCHANGED slitherVars
    /\ UNCHANGED <<snake, food, gameOver, score, lastTickDirection>>
    /\ IF ~gameRunning /\ ~gameOver
       THEN UNCHANGED <<direction, gameRunning>>
       ELSE /\ direction' = KeyDirection(key, direction)
            /\ gameRunning' = IF key = " "
                              THEN StartedRunning(gameRunning, gameOver)
                              ELSE gameRunning


(***************************************************************************)
(* Continuous game: SlitherGame.tsx                                         *)
(*                                                                          *)
(* Coordinates are kept on the integer lattice.  A heading is a whole       *)
(* number of eighths of a turn (one unit is PI / 4), Math.atan2 gives the   *)
(* nearest such heading, and Math.cos / Math.sin times the speed 2 are      *)
(* rounded to the lattice; turnSpeed is one heading unit.  A distance test  *)
(* Math.sqrt(dx^2 + dy^2) < r is the test dx^2 + dy^2 < r^2.                *)
(*                                                                          *)
(* gameLoop, updateSnake and startGame are closures: a callback handed to   *)
(* requestAnimationFrame keeps the gameRunning, gameOver, mousePos and      *)
(* camera of the render that created it, and gameLoop re-requests itself,   *)
(* so a chain of frames keeps the closure it was started with.              *)
(***************************************************************************)
\* CANVAS_WIDTH and CANVAS_HEIGHT of SlitherGame.tsx.
SLITHER_CANVAS_WIDTH == 800
SLITHER_CANVAS_HEIGHT == 600
WORLD_WIDTH == 2000
WORLD_HEIGHT == 1500
SEGMENT_SIZE == 8
FOOD_COUNT == 200
AI_SNAKE_COUNT == 5
\* The segment count and the speed createSnake gives a snake.
INITIAL_SEGMENTS == 5
SPEED == 2
\* turnSpeed of updateAI (0.05 rad) and Math.PI, in heading units.
TURN_SPEED == 1
PI_UNITS == 4

\* requestAnimationFrame ids the model hands out before it stops requesting.
MaxFrameRequests == 4

\* Outcomes of the Math.random() * WORLD_WIDTH, Math.random() * WORLD_HEIGHT
\* draws of initializeGame: the spawn positions of the AI snakes, in order.
\*   - all five in the lower left corner, outside the clamped rectangle;
\*   - the first one across the player's path, the others in the corner;
\*   - five places far from each other and from the player, two of them
\*     outside the clamped rectangle at opposite corners.
SpawnLayouts ==
    { <<Pos(3, 1497), Pos(3, 1497), Pos(3, 1497), Pos(3, 1497), Pos(3, 1497)>>,
      <<Pos(1006, 745), Pos(3, 1497), Pos(3, 1497), Pos(3, 1497), Pos(3, 1497)>>,
      <<Pos(500, 1200), Pos(800, 1200), Pos(1100, 1200), Pos(3, 1497),
        Pos(1997, 3)>> }

\* Outcomes of Math.random() * Math.PI * 2 for the spawn headings.
SpawnHeadings == {0}

\* Outcomes of the FOOD_COUNT draws of generateFood: item i lies at site
\* (i mod the number of sites) of the layout drawn.
FoodLayouts == { <<Pos(997, 747), Pos(12, 1490), Pos(516, 1200)>>,
                 <<Pos(1500, 300)>> }

\* Pointer positions on the canvas.
MousePositions == {Pos(400, 300), Pos(700, 100)}

Abs(n) == IF n < 0 THEN -n ELSE n

Dist2(a, b) == (a.x - b.x) * (a.x - b.x) + (a.y - b.y) * (a.y - b.y)

\* Math.atan2(dy, dx) in heading units, in -PI_UNITS..PI_UNITS.
Atan2(dy, dx) ==
    IF dx = 0 /\ dy = 0 THEN 0
    ELSE IF 1000 * Abs(dy) <= 414 * Abs(dx)
         THEN (IF dx > 0 THEN 0 ELSE IF dy >= 0 THEN PI_UNITS ELSE -PI_UNITS)
    ELSE IF 1000 * Abs(dx) <= 414 * Abs(dy)
         THEN (IF dy > 0 THEN 2 ELSE -2)
    ELSE IF dx > 0 THEN (IF dy > 0 THEN 1 ELSE -1)
                   ELSE (IF dy > 0 THEN 3 ELSE -3)

\* Math.cos(direction) * speed and Math.sin(direction) * speed.
CosSpeed(dir) ==
    LET u == dir % (2 * PI_UNITS) IN
    CASE u = 0 -> SPEED   [] u \in {1, 7} -> 1 [] u \in {2, 6} -> 0
      [] u \in {3, 5} -> -1 [] OTHER -> -SPEED

SinSpeed(dir) ==
    LET u == dir % (2 * PI_UNITS) IN
    CASE u = 2 -> SPEED   [] u \in {1, 3} -> 1 [] u \in {0, 4} -> 0
      [] u \in {5, 7} -> -1 [] OTHER -> -SPEED

\* size: 3 + Math.random() * 3, the draw being fixed by the item's index.
generateFoodItems(layout) ==
    [i \in 1..FOOD_COUNT |->
        [x |-> layout[(i % Len(layout)) + 1].x,
         y |-> layout[(i % Len(layout)) + 1].y,
         size |-> 3 + (i % 3)]]

createSnake(px, py, isPlayer, id, heading) ==
    [id |-> id,
     segments |-> [i \in 1..INITIAL_SEGMENTS |->
                      Pos(px - (i - 1) * SEGMENT_SIZE, py)],
     isPlayer |-> isPlayer,
     direction |-> heading,
     speed |-> SPEED,
     isDead |-> FALSE]

\* `ai_${i}`
AiId(i) == <<"ai_0", "ai_1", "ai_2", "ai_3", "ai_4">>[i + 1]

\* snakesRef.current after initializeGame: the player, then the AI snakes.
initialSnakes(spawn, heading) ==
    <<createSnake(WORLD_WIDTH \div 2, WORLD_HEIGHT \div 2, TRUE, "player", heading)>>
    \o [i \in 1..AI_SNAKE_COUNT |->
           createSnake(spawn[i].x, spawn[i].y, FALSE, AiId(i - 1), heading)]

\* The forEach over foodRef.current in updateAI: index of the nearest item,
\* the first minimum winning (distance < minDistance is strict); 0 when there
\* is no food.
NearestFood(foods, head) ==
    IF Len(foods) = 0 THEN 0
    ELSE LET dists == {Dist2(foods[i], head) : i \in 1..Len(foods)}
             minDistance == CHOOSE d \in dists : \A e \in dists : d <= e
         IN  CHOOSE i \in 1..Len(foods) :
                 /\ Dist2(foods[i], head) = minDistance
                 /\ \A j \in 1..(i - 1) : Dist2(foods[j], head) # minDistance

RECURSIVE NormalizeAngle(_)
NormalizeAngle(d) ==
    IF d > PI_UNITS THEN NormalizeAngle(d - 2 * PI_UNITS)
    ELSE IF d < -PI_UNITS THEN NormalizeAngle(d + 2 * PI_UNITS)
    ELSE d

Sign(n) == IF n > 0 THEN 1 ELSE IF n < 0 THEN -1 ELSE 0

\* The heading updateAI leaves the snake with.
updateAI(s, foods) ==
    IF s.isPlayer \/ s.isDead THEN s.direction
    ELSE LET head == s.segments[1]
             n == NearestFood(foods, head)
         IN  IF n = 0 THEN s.direction
             ELSE LET targetAngle == Atan2(foods[n].y - head.y, foods[n].x - head.x)
                      normalizedDiff == NormalizeAngle(targetAngle - s.direction)
                  IN  IF Abs(normalizedDiff) > TURN_SPEED
                      THEN s.direction + Sign(normalizedDiff) * TURN_SPEED
                      ELSE targetAngle

\* Math.max(lo, Math.min(hi, v))
Clamp_Wrap(v, lo, hi) == IF v < lo THEN hi ELSE IF v > hi THEN lo ELSE v

Clamp(v, lo, hi) ==
    LET m == IF hi < v THEN hi ELSE v
    IN  IF lo > m THEN lo ELSE m

\* distance < SEGMENT_SIZE + food.size
InFoodRange(f, head) ==
    Dist2(f, head) < (SEGMENT_SIZE + f.size) * (SEGMENT_SIZE + f.size)

\* distance < SEGMENT_SIZE
Collides(segment, head) == Dist2(segment, head) < SEGMENT_SIZE * SEGMENT_SIZE

\* snake.segments.unshift(head), then snake.segments.pop() unless ate.
SegmentsAfter_NeverPop(segments, head, ate) == <<head>> \o segments

SegmentsAfter(segments, head, ate) ==
    IF ate THEN <<head>> \o segments
           ELSE SubSeq(<<head>> \o segments, 1, Len(segments))

\* foodRef.current = foodRef.current.filter(...).  The callback pushes each
\* replacement item onto the array being filtered; filter visits only the
\* elements that were there when it was called and returns a new array of the
\* kept ones, and the assignment then replaces the array that holds the
\* replacements by that result.
FoodAfterEating(foods, head) ==
    SelectSeq(foods, LAMBDA f : ~InFoodRange(f, head))

\* The forEach over snakesRef.current at the end of updateSnake: whether the
\* snake with this id and head is marked dead.
HitsOtherSnake_HeadsToo(snakes, id, head) ==
    \E j \in 1..Len(snakes) :
        /\ snakes[j].id # id
        /\ ~snakes[j].isDead
        /\ \E i \in 1..Len(snakes[j].segments) :
               Collides(snakes[j].segments[i], head)

HitsOtherSnake(snakes, id, head) ==
    \E j \in 1..Len(snakes) :
        /\ snakes[j].id # id
        /\ ~snakes[j].isDead
        /\ \E i \in 2..Len(snakes[j].segments) :
               Collides(snakes[j].segments[i], head)

\* One call of updateSnake on snakesRef.current[k], in the closure cl.
\* w carries what the frame has done so far: the two refs, the queued state
\* updates (score, over, running) and the frame's log.  A log entry keeps,
\* for the actor updated, the snakes as the call found them (world), whether
\* the call marked the actor dead, and the game flags as queued after it.
updateSnake(w, k, cl) ==
    LET s == w.snakes[k] IN
    IF s.isDead
    THEN [w EXCEPT !.log = Append(@, [id |-> s.id, updated |-> FALSE,
                                      before |-> Len(s.segments),
                                      after |-> Len(s.segments), eaten |-> 0,
                                      raw |-> s.segments[1],
                                      head |-> s.segments[1],
                                      world |-> w.snakes, dead |-> FALSE,
                                      over |-> w.over,
                                      running |-> w.running])]
    ELSE LET old == s.segments[1]
             mouseWorldX == cl.mouse.x + cl.camera.x - SLITHER_CANVAS_WIDTH \div 2
             mouseWorldY == cl.mouse.y + cl.camera.y - SLITHER_CANVAS_HEIGHT \div 2
             dir == IF s.isPlayer
                    THEN Atan2(mouseWorldY - old.y, mouseWorldX - old.x)
                    ELSE updateAI(s, w.food)
             raw == Pos(old.x + CosSpeed(dir), old.y + SinSpeed(dir))
             head == Pos(Clamp(raw.x, SEGMENT_SIZE, WORLD_WIDTH - SEGMENT_SIZE),
                         Clamp(raw.y, SEGMENT_SIZE, WORLD_HEIGHT - SEGMENT_SIZE))
             kept == FoodAfterEating(w.food, head)
             eaten == Len(w.food) - Len(kept)
             segs == SegmentsAfter(s.segments, head, eaten > 0)
             dead == HitsOtherSnake(w.snakes, s.id, head)
         IN  [snakes |-> [w.snakes EXCEPT ![k] =
                             [s EXCEPT !.direction = dir, !.segments = segs,
                                       !.isDead = dead]],
              food |-> kept,
              score |-> w.score + (IF s.isPlayer THEN eaten ELSE 0),
              over |-> w.over \/ (dead /\ s.isPlayer),
              running |-> w.running /\ ~(dead /\ s.isPlayer),
              log |-> Append(w.log, [id |-> s.id, updated |-> TRUE,
                                     before |-> Len(s.segments),
                                     after |-> Len(segs), eaten |-> eaten,
                                     raw |-> raw, head |-> head,
                                     world |-> w.snakes, dead |-> dead,
                                     over |-> w.over \/ (dead /\ s.isPlayer),
                                     running |-> w.running /\ ~(dead /\ s.isPlayer)])]

\* snakesRef.current.forEach(updateSnake)
RECURSIVE UpdateAll(_, _, _)
UpdateAll(w, k, cl) ==
    IF k > Len(w.snakes) THEN w
    ELSE UpdateAll(updateSnake(w, k, cl), k + 1, cl)

\* snakesRef.current = snakesRef.current.filter(...).  As in FoodAfterEating,
\* each replacement snake is pushed onto the array being filtered, which the
\* assignment then replaces by filter's result.
SnakesAfterCleanup(snakes) ==
    SelectSeq(snakes, LAMBDA s : ~(~s.isPlayer /\ s.isDead))

\* setCamera(...) unless the player is missing or dead.
CameraAfter(snakes, cam) ==
    IF \E i \in 1..Len(snakes) : snakes[i].isPlayer
    THEN LET p == snakes[CHOOSE i \in 1..Len(snakes) :
                        /\ snakes[i].isPlayer
                        /\ \A j \in 1..(i - 1) : ~snakes[j].isPlayer]
         IN  IF p.isDead THEN cam
             ELSE Pos(p.segments[1].x - SLITHER_CANVAS_WIDTH \div 2,
                      p.segments[1].y - SLITHER_CANVAS_HEIGHT \div 2)
    ELSE cam

SlitherInit ==
    /\ sGameRunning = FALSE
    /\ sGameOver = FALSE
    /\ sScore = 0
    /\ mousePos = Pos(SLITHER_CANVAS_WIDTH \div 2, SLITHER_CANVAS_HEIGHT \div 2)
    /\ camera = Pos(0, 0)
    /\ snakesRef = <<>>
    /\ foodRef = <<>>
    /\ animationFrameRef = 0
    /\ frameQueue = {}
    /\ nextFrameId = 1
    /\ frameLog = <<>>

\* The closure of the current render, as a requested frame carries it.
Closure(id) ==
    [id |-> id, running |-> sGameRunning, over |-> sGameOver,
     mouse |-> mousePos, camera |-> camera]

\* startGame of SlitherGame.tsx: initializeGame(), setGameRunning(true),
\* requestAnimationFrame(gameLoop) with the gameLoop of the current render.
slitherStartGame_KeepsScore ==
    /\ nextFrameId <= MaxFrameRequests
    /\ \E spawn \in SpawnLayouts,
          heading \in SpawnHeadings, layout \in FoodLayouts :
           /\ snakesRef' = initialSnakes(spawn, heading)
           /\ foodRef' = generateFoodItems(layout)
    /\ sGameOver' = FALSE
    /\ sGameRunning' = TRUE
    /\ frameQueue' = frameQueue \cup {Closure(nextFrameId)}
    /\ animationFrameRef' = nextFrameId
    /\ nextFrameId' = nextFrameId + 1
    /\ frameLog' = <<>>
    /\ UNCHANGED <<sScore, mousePos, camera>>
    /\ UNCHANGED gridVars

slitherStartGame ==
    /\ nextFrameId <= MaxFrameRequests
    /\ \E spawn \in SpawnLayouts,
          heading \in SpawnHeadings, layout \in FoodLayouts :
           /\ snakesRef' = initialSnakes(spawn, heading)
           /\ foodRef' = generateFoodItems(layout)
    /\ sScore' = 0
    /\ sGameOver' = FALSE
    /\ sGameRunning' = TRUE
    /\ frameQueue' = frameQueue \cup {Closure(nextFrameId)}
    /\ animationFrameRef' = nextFrameId
    /\ nextFrameId' = nextFrameId + 1
    /\ frameLog' = <<>>
    /\ UNCHANGED <<mousePos, camera>>
    /\ UNCHANGED gridVars

\* resetGame of SlitherGame.tsx.
slitherResetGame ==
    /\ sGameRunning' = FALSE
    /\ sGameOver' = FALSE
    /\ frameQueue' = IF animationFrameRef # 0
                     THEN {cb \in frameQueue : cb.id # animationFrameRef}
                     ELSE frameQueue
    /\ UNCHANGED <<sScore, mousePos, camera, snakesRef, foodRef,
                   animationFrameRef, nextFrameId, frameLog>>
    /\ UNCHANGED gridVars

handleMouseMove(p) ==
    /\ mousePos' = p
    /\ UNCHANGED <<sGameRunning, sGameOver, sScore, camera, snakesRef, foodRef,
                   animationFrameRef, frameQueue, nextFrameId, frameLog>>
    /\ UNCHANGED gridVars

\* The browser runs the requested callback cb: gameLoop in cb's closure.
gameLoop(cb) ==
    /\ cb \in frameQueue
    /\ UNCHANGED <<mousePos, gridVars>>
    /\ IF ~cb.running \/ cb.over
       THEN /\ frameQueue' = frameQueue \ {cb}
            /\ UNCHANGED <<sGameRunning, sGameOver, sScore, camera, snakesRef,
                           foodRef, animationFrameRef, nextFrameId, frameLog>>
       ELSE /\ nextFrameId <= MaxFrameRequests
            /\ \E w \in {UpdateAll([snakes |-> snakesRef, food |-> foodRef,
                                   score |-> sScore, over |-> sGameOver,
                                   running |-> sGameRunning, log |-> <<>>],
                                  1, cb)} :
                   /\ snakesRef' = SnakesAfterCleanup(w.snakes)
                   /\ foodRef' = w.food
                   /\ sScore' = w.score
                   /\ sGameOver' = w.over
                   /\ sGameRunning' = w.running
                   /\ camera' = CameraAfter(w.snakes, camera)
                   /\ frameLog' = w.log
            /\ frameQueue' = (frameQueue \ {cb}) \cup {[cb EXCEPT !.id = nextFrameId]}
            /\ animationFrameRef' = nextFrameId
            /\ nextFrameId' = nextFrameId + 1

(***************************************************************************)
(* Specifications                                                           *)
(***************************************************************************)
Init == GridInit /\ SlitherInit

Next ==
    \/ resetGame
    \/ startGame
    \/ moveSnake
    \/ \E key \in Keys : handleKeyPress(key)

Spec == Init /\ [][Next]_vars

SlitherNext ==
    \/ slitherStartGame
    \/ slitherResetGame
    \/ \E p \in MousePositions : handleMouseMove(p)
    \/ \E cb \in frameQueue : gameLoop(cb)

SlitherSpec == Init /\ [][SlitherNext]_vars

\* Both components, one of them mounted: each keeps its state in its own
\* hooks and refs and no handler of one reads or writes the other's, so a
\* game is played while the other component is as constructed.
GridAsConstructed == GridInit

SlitherAsConstructed == SlitherInit

EitherNext ==
    \/ SlitherAsConstructed /\ Next
    \/ GridAsConstructed /\ SlitherNext

EitherSpec == Init /\ [][EitherNext]_vars


(***************************************************************************)
(* Claims about the grid game, checked under Spec                           *)
(***************************************************************************)
\* The unit vectors the claims name: UP = (0,-1), DOWN = (0,1),
\* LEFT = (-1,0), RIGHT = (1,0).
UnitVector(d) ==
    CASE d = "UP"    -> Pos(0, -1)
      [] d = "DOWN"  -> Pos(0, 1)
      [] d = "LEFT"  -> Pos(-1, 0)
      [] d = "RIGHT" -> Pos(1, 0)

Opposite(d, e) ==
    \/ {d, e} = {"UP", "DOWN"}
    \/ {d, e} = {"LEFT", "RIGHT"}

\* The step is a tick that finds the game running.
RunningTick == lastOp' = "tick" /\ gameRunning /\ ~gameOver

\* The cell a running tick computes as the new head.
TickHead == Pos(snake[1].x + UnitVector(direction).x,
                snake[1].y + UnitVector(direction).y)

OutsideGrid(c) == c.x < 0 \/ c.x >= 30 \/ c.y < 0 \/ c.y >= 20

OnSnake(c) == \E i \in 1..Len(snake) : snake[i] = c

\* C3: the directions used by two consecutive ticks are never direct
\* opposites, whatever arrow keys were pressed between the two ticks.
C3_NoReversalBetweenTicks ==
    [][(RunningTick /\ lastTickDirection # "NONE")
          => ~Opposite(lastTickDirection, direction)]_vars

\* C4 as stated: across every tick the length never decreases, grows by
\* exactly 1 when the new head coincides with the food cell, and is unchanged
\* on every other tick.
C4_GrowsWheneverHeadMeetsFood ==
    [][lastOp' = "tick" =>
          Len(snake') = IF RunningTick /\ TickHead = food
                        THEN Len(snake) + 1 ELSE Len(snake)]_vars

\* C4 as amended: across every tick the length never decreases; it grows by
\* exactly 1 on a running tick whose new head is inside the grid, on no
\* segment of the snake and on the food cell, and is unchanged on every other
\* tick.
C4_LengthStep ==
    [][lastOp' = "tick" =>
          /\ Len(snake') >= Len(snake)
          /\ Len(snake') = IF /\ RunningTick
                              /\ ~OutsideGrid(TickHead)
                              /\ ~OnSnake(TickHead)
                              /\ TickHead = food
                           THEN Len(snake) + 1 ELSE Len(snake)]_vars

\* A tick has eaten: the snake has grown and the food counted.
C4_Witness ==
    lastOp = "tick" /\ gameRunning /\ Len(snake) = 2 /\ score = 10

\* C5: a running tick whose new head is outside the grid ends the game and
\* leaves the segments as they were; once the game is over nothing but
\* reset() changes the snake, the food or the score.
C5_WallEndsGame ==
    [][/\ (RunningTick /\ OutsideGrid(TickHead))
             => (gameOver' /\ ~gameRunning' /\ snake' = snake)
       /\ (gameOver /\ lastOp' # "reset")
             => (gameOver' /\ UNCHANGED <<snake, food, score>>)]_vars

\* The game ended on a tick heading RIGHT out of the last column, and a
\* later tick has run.
C5_Witness ==
    /\ gameOver /\ ~gameRunning
    /\ lastOp = "tick"
    /\ lastTickDirection = "RIGHT"
    /\ snake[1].x = 29

\* C6: a tick that eats adds exactly 10 to the score, keeps the tail, and
\* moves the food to a cell other than the one just eaten.
C6_FoodRelocatedElsewhere ==
    [][(RunningTick /\ ~OutsideGrid(TickHead) /\ ~OnSnake(TickHead)
           /\ TickHead = food)
          => /\ score' = score + 10
             /\ snake' = <<TickHead>> \o snake
             /\ food' # snake'[1]]_vars

\* C7: on a running tick that does not end the game the new head is the old
\* head plus the unit vector of the direction, and every other segment is the
\* segment that was one place ahead of it.
C7_HeadAdvancesBodyFollows ==
    [][(RunningTick /\ ~gameOver') =>
          /\ snake'[1] = TickHead
          /\ \A i \in 2..Len(snake') : snake'[i] = snake[i - 1]]_vars

\* A two-segment snake has just moved UP, its tail on the cell below.
C7_Witness ==
    /\ lastOp = "tick" /\ gameRunning
    /\ lastTickDirection = "UP"
    /\ Len(snake) = 2
    /\ snake[2] = Pos(snake[1].x, snake[1].y + 1)

\* C10: the spacebar pressed while running pauses the game: it leaves the
\* game not running and not over.
C10_SpacePausesRunningGame ==
    [][(lastOp' = "space" /\ gameRunning /\ ~gameOver)
          => (~gameRunning' /\ ~gameOver')]_vars


\* C11 as stated: start(), by button or spacebar, invoked in idle or in
\* game_over moves the game to running, and invoked while running changes
\* nothing.
C11_StartFromIdleOrGameOver ==
    [][lastOp' \in {"start", "space"} =>
          IF gameRunning
          THEN UNCHANGED <<snake, food, direction, gameOver, score, gameRunning>>
          ELSE gameRunning' /\ ~gameOver']_vars

\* C12: reset() in any state leaves the single segment (10,10), direction
\* RIGHT, score 0, gameRunning and gameOver false and a food cell that
\* generateFood draws; a tick or a key in that idle state changes nothing.
C12_ResetYieldsIdle ==
    [][/\ lastOp' = "reset" =>
             /\ snake' = <<Pos(10, 10)>>
             /\ direction' = "RIGHT"
             /\ score' = 0
             /\ ~gameRunning' /\ ~gameOver'
             /\ food'.x \in 0..28 /\ food'.y \in 0..18
       /\ (lastOp' \in {"tick", "key", "space"} /\ ~gameRunning /\ ~gameOver) =>
             UNCHANGED <<snake, food, direction, gameOver, score, gameRunning>>]_vars

\* A tick has run in the idle state that a reset() left: the food is no
\* longer the initial one and the snake is the initial segment.
C12_Witness ==
    /\ lastOp = "tick"
    /\ ~gameRunning /\ ~gameOver
    /\ snake = <<Pos(10, 10)>> /\ direction = "RIGHT" /\ score = 0
    /\ food # Pos(15, 15)

\* C17: a running tick whose new head is inside the grid and on a segment of
\* the snake as it was before the tick, the tail cell included, ends the
\* game and leaves snake, food and score unchanged, also when that cell is
\* the food cell.
C17_SelfBeforeFood ==
    [][(RunningTick /\ ~OutsideGrid(TickHead) /\ OnSnake(TickHead)) =>
          /\ gameOver' /\ ~gameRunning'
          /\ UNCHANGED <<snake, food, score>>]_vars

\* The game ended on a tick whose new head was the tail cell, which was also
\* the food cell.
C17_Witness ==
    /\ gameOver /\ ~gameRunning /\ lastOp = "tick"
    /\ Len(snake) = 2
    /\ Advance(snake[1], lastTickDirection) = snake[2]
    /\ food = snake[2]
    /\ score = 10

\* C19: in every reachable state score = 10 * (snake length - 1).
C19_ScoreTracksLength ==
    score = 10 * (Len(snake) - 1)

\* The snake has eaten and the game has since ended against the wall.
C19_Witness ==
    /\ gameOver /\ lastOp = "start"
    /\ Len(snake) = 2 /\ score = 10
    /\ OutsideGrid(Advance(snake[1], lastTickDirection))

FrameRan == frameLog # <<>>

Updated == {i \in 1..Len(frameLog) : frameLog[i].updated}

\* C1: after every frame the food pool holds as many items as after
\* start(), 200: every item eaten is replaced within the same update.
C1_FoodPoolConstant ==
    FrameRan => Len(foodRef) = 200

\* C2: after every frame the actor list holds the player and exactly 5
\* non-player actors: a dead non-player actor is replaced by a fresh one.
C2_PopulationConstant ==
    FrameRan =>
        /\ Cardinality({k \in 1..Len(snakesRef) : snakesRef[k].isPlayer}) = 1
        /\ Cardinality({k \in 1..Len(snakesRef) : ~snakesRef[k].isPlayer}) = 5

\* C8: an actor's update never shortens it, and lengthens it by exactly one
\* segment if and only if the actor ate at least one food item in that frame,
\* however many items were in range.
C8_GrowsIffAte ==
    \A i \in Updated :
        /\ frameLog[i].after >= frameLog[i].before
        /\ (frameLog[i].after = frameLog[i].before + 1) <=> (frameLog[i].eaten >= 1)
        /\ (frameLog[i].eaten = 0) => (frameLog[i].after = frameLog[i].before)

\* In one frame one actor ate several items at once and another ate nothing.
C8_Witness ==
    /\ \E i \in Updated :
           frameLog[i].eaten >= 2 /\ frameLog[i].after = frameLog[i].before + 1
    /\ \E i \in Updated :
           frameLog[i].eaten = 0 /\ frameLog[i].after = frameLog[i].before

InWorld(c) == c.x >= 8 /\ c.x <= 1992 /\ c.y >= 8 /\ c.y <= 1492

\* C9: after an actor's update its head lies in [8, 1992] x [8, 1492]; a
\* coordinate that the move would take outside is left on the boundary it
\* crossed, and one that stays inside is the moved coordinate.
C9_HeadClampedToWorld ==
    /\ \A i \in Updated :
           /\ InWorld(frameLog[i].head)
           /\ frameLog[i].head.x = (IF frameLog[i].raw.x < 8 THEN 8
                                    ELSE IF frameLog[i].raw.x > 1992 THEN 1992
                                    ELSE frameLog[i].raw.x)
           /\ frameLog[i].head.y = (IF frameLog[i].raw.y < 8 THEN 8
                                    ELSE IF frameLog[i].raw.y > 1492 THEN 1492
                                    ELSE frameLog[i].raw.y)
    /\ \A k \in 1..Len(snakesRef) : \A i \in Updated :
           frameLog[i].id = snakesRef[k].id =>
               snakesRef[k].segments[1] = frameLog[i].head

\* One actor's move left the world on the low x and the high y side, and
\* another's on the high x and the low y side.
C9_Witness ==
    /\ \E i \in Updated :
           /\ frameLog[i].raw.x < 8 /\ frameLog[i].raw.y > 1492
           /\ frameLog[i].head = Pos(8, 1492)
    /\ \E i \in Updated :
           /\ frameLog[i].raw.x > 1992 /\ frameLog[i].raw.y < 8
           /\ frameLog[i].head = Pos(1992, 8)

\* The snakes, the food and the score as initializeGame leaves them, with
\* the flags startGame sets.
Fresh ==
    /\ Cardinality({k \in 1..Len(snakesRef) : snakesRef[k].isPlayer}) = 1
    /\ Cardinality({k \in 1..Len(snakesRef) : ~snakesRef[k].isPlayer}) = 5
    /\ \A k \in 1..Len(snakesRef) :
           ~snakesRef[k].isDead /\ Len(snakesRef[k].segments) = 5
    /\ Len(foodRef) = 200
    /\ sScore = 0
    /\ ~sGameOver
    /\ sGameRunning

\* start() has been invoked and neither reset() nor an updating frame has
\* come since.
JustStarted == sGameRunning /\ frameLog = <<>>

\* C13: whatever was played before, the state start() leaves is a fresh one:
\* one player and 5 non-player actors, each alive with 5 segments, 200 food
\* items, score 0, gameOver false, gameRunning true.
C13_StartIsFresh ==
    JustStarted => Fresh

\* A game was played (the camera has followed the player), reset() has
\* cancelled its pending frame, and start() has been invoked again.
C13_Witness ==
    /\ JustStarted
    /\ camera # Pos(0, 0)
    /\ frameQueue # {}
    /\ \A cb \in frameQueue : cb.id = animationFrameRef

\* start() has been invoked in the idle state: the callback it requested
\* was made by the render of the idle state.
StartedFromIdle ==
    /\ JustStarted
    /\ \E cb \in frameQueue :
           cb.id = animationFrameRef /\ ~cb.running /\ ~cb.over

\* The step runs the callback that the last requestAnimationFrame call
\* queued: it leaves the queue, and not because reset() cancelled it.
RequestedFrameRuns ==
    \E cb \in frameQueue :
        /\ cb.id = animationFrameRef
        /\ cb \notin frameQueue'
        /\ (sGameRunning' \/ frameLog' # frameLog)

\* C14 as stated: when the callback requested by a start() from idle runs, it
\* passes the guard: it updates the actors and requests the next frame.
C14_FirstFrameUpdates ==
    [][(StartedFromIdle /\ RequestedFrameRuns) =>
          /\ frameLog' # <<>>
          /\ animationFrameRef' # animationFrameRef
          /\ \E cb \in frameQueue' : cb.id = animationFrameRef']_vars

\* C15 as stated: from game over or reset() until the next start(), that is
\* while gameRunning stays false, no step (no frame callback in particular)
\* changes an actor, the food pool or the score.
C15_ChainStops ==
    [][(~sGameRunning /\ ~sGameRunning') =>
          UNCHANGED <<snakesRef, foodRef, sScore>>]_vars

\* Log entry e says that the updated actor's new head is closer than 8 to a
\* non-head segment of another actor that was not dead at that moment.
NearOtherBody(e) ==
    \E j \in 1..Len(e.world) :
        /\ e.world[j].id # e.id
        /\ ~e.world[j].isDead
        /\ \E m \in 2..Len(e.world[j].segments) :
               Dist2(e.world[j].segments[m], e.head) < 8 * 8

\* Likewise for another living actor's head.
NearOtherHead(e) ==
    \E j \in 1..Len(e.world) :
        /\ e.world[j].id # e.id
        /\ ~e.world[j].isDead
        /\ Dist2(e.world[j].segments[1], e.head) < 8 * 8

\* C16: an update marks its actor dead if and only if the new head is closer
\* than 8 to a non-head segment of another actor not dead at that moment (its
\* own segments and other actors' heads do not count), and a player marked
\* dead sets gameOver true and gameRunning false.
C16_DeadIffNearOtherBody ==
    \A i \in Updated :
        /\ frameLog[i].dead <=> NearOtherBody(frameLog[i])
        /\ (frameLog[i].dead /\ frameLog[i].id = "player") =>
               (frameLog[i].over /\ ~frameLog[i].running)

\* In one frame the player was marked dead, and a non-player actor whose new
\* head was within 8 of another actor's head, and within 8 of its own
\* segments, was not.
C16_Witness ==
    /\ \E i \in Updated :
           /\ frameLog[i].id = "player" /\ frameLog[i].dead
           /\ frameLog[i].over /\ ~frameLog[i].running
    /\ \E i \in Updated :
           /\ frameLog[i].id # "player" /\ ~frameLog[i].dead
           /\ NearOtherHead(frameLog[i])
           /\ \E k \in 1..Len(frameLog[i].world) :
                  /\ frameLog[i].world[k].id = frameLog[i].id
                  /\ Dist2(frameLog[i].world[k].segments[1], frameLog[i].head) < 8 * 8


(***************************************************************************)
(* Claims about both games, checked under EitherSpec                        *)
(***************************************************************************)
\* C18: in every reachable state of either game gameRunning and gameOver
\* are not both true.
C18_NeverRunningAndOver ==
    /\ ~(gameRunning /\ gameOver)
    /\ ~(sGameRunning /\ sGameOver)

\* The continuous game is over while a frame callback is still requested.
C18_Witness ==
    /\ sGameOver /\ ~sGameRunning
    /\ frameQueue # {}

=============================================================================
